---- MODULE Spec2Model ----
(***************************************************************************)
(* Server lifecycle supervisor of src/src/buckaroo_mcp_tool.py.            *)
(*                                                                         *)
(* One supervisor process with two threads (the primary thread running the *)
(* tool handlers, the signal handler and the exit hook; the daemon thread  *)
(* of _start_parent_watcher), the OS processes it spawns (the data server  *)
(* and the pipe watchdog), a service that may already listen on the        *)
(* endpoint, and the environment (signals, parent death, abrupt kill).     *)
(* Statements that read a module global are separate steps wherever the    *)
(* other thread can run in between.                                        *)
(***************************************************************************)
EXTENDS Integers, Sequences, FiniteSets, TLC

\* ---- bounds of the model ------------------------------------------------
MaxCalls == 2
MaxSignals == 1
MaxUptime == 1
MaxPeerCalls == 1

\* ---- program constants --------------------------------------------------
ReadinessBudget == 20

ExpectedVersion == "V2"
StaleVersion == "V1"

\* The value of a cleared handle (Python's None), and "no process".
None == 0

Ctx == {"atexit", "handler", "watcher"}

VARIABLES
    procs,           \* OS processes, indexed by pid: kind, alive, ver, target, own, perm
    port,            \* pid of the process listening on SERVER_URL, or None
    sent,            \* signals sent so far: [to, sig, by]
    server_proc,     \* global _server_proc: pid of the Popen object, or None
    server_monitor,  \* global _server_monitor: pid of the Popen object, or None
    sup,             \* "running" | "exited"
    exitPath,        \* "none" | "normal" | "signal" | "orphan" | "killed"
    mpc,             \* position of the primary thread
    i,               \* loop index of the readiness loop
    old_pid,         \* local old_pid of ensure_server (None outside the mismatch path)
    health,          \* local health of ensure_server: the last report assigned to it
    result,          \* outcome of the last ensure_server call
    calls,           \* tool calls started so far
    cpc,             \* position of each _cleanup_server invocation, per trigger
    cobj,            \* the Popen object a cleanup invocation is waiting on
    ppidChanged,     \* os.getppid() differs from original_ppid
    sigs,            \* SIGTERM/SIGINT deliveries so far
    served,          \* pid reported by the last ensure_server that returned
    SESSION_ID,      \* global SESSION_ID
    posted,          \* payload of the POST /load of the current call
    reply,           \* what the MCP client received for its last request
    log,             \* records written to the log that the claims speak of
    peer             \* a second supervisor instance on the same endpoint

vars == <<procs, port, sent, server_proc, server_monitor, sup, exitPath, mpc, i,
          old_pid, health, result, calls, cpc, cobj, ppidChanged, sigs, served,
          SESSION_ID, posted, reply, log, peer>>

\* The variables of the request path (the load exchange, the replies, the
\* log), which the process supervision below never touches.
serveVars == <<SESSION_ID, posted, reply, log>>

NoPayload == [session |-> "-", path |-> "-", mode |-> "-"]

NoReply == [kind |-> "none"]

\* The second supervisor after its import: no call yet, both handles None.
PeerIdle ==
    [pc |-> "idle", server_proc |-> None, server_monitor |-> None,
     served |-> None, calls |-> 0]

\* The session id is uuid4().hex[:12], drawn once at import.
SessionIds == {"s1", "s2"}

\* The request path before any request. The supervision does not depend on
\* the session id: one value stands for all of them there.
ServeIdle ==
    /\ posted = NoPayload
    /\ reply = NoReply
    /\ log = {}

Pids == 1..Len(procs)

Alive(p) == p \in Pids /\ procs[p].alive

Services == {p \in Pids : procs[p].kind = "service"}

Watchdogs == {p \in Pids : procs[p].kind = "watchdog"}

LiveServices == {p \in Services : procs[p].alive}

\* A process that dies stops listening: the OS frees the port.
PortAfterDeath(p) == IF port = p THEN None ELSE port

Die(p) == [procs EXCEPT ![p].alive = FALSE]

NoHealth == [k |-> "none", pid |-> None, ver |-> "-", uptime |-> 0, err |-> "-"]

NoResult == [status |-> "none", pid |-> None, ver |-> "-", uptime |-> 0,
             err |-> "-", msg |-> <<>>]

\* ---- the health probe ----------------------------------------------------

\* What a GET /health can meet. Nobody listening: the connection is refused.
\* A listener may answer 200 with a report or not answer within the timeout;
\* a listener this supervisor did not launch may be any HTTP server, and may
\* also answer with an error status or with a body that is not JSON.
ProbeOutcomes ==
    IF ~Alive(port) THEN {"refused"}
    ELSE {"ok200", "timeout"}
         \cup (IF procs[port].own THEN {} ELSE {"non200", "malformed"})

Uptimes == 0..MaxUptime

\* _health_check: urlopen raises URLError/OSError on a refused connection, a
\* timeout and an HTTP error status, which are caught; json.loads raises
\* JSONDecodeError (a ValueError) on a malformed body, which is not.
health_check(outcome, u) ==
    CASE outcome = "ok200" ->
           [k |-> "report", pid |-> port, ver |-> procs[port].ver, uptime |-> u,
            err |-> "-"]
      [] outcome = "malformed" ->
           [k |-> "raise", pid |-> None, ver |-> "-", uptime |-> 0,
            err |-> "JSONDecodeError"]
      [] OTHER ->
           [k |-> "none", pid |-> None, ver |-> "-", uptime |-> 0, err |-> "-"]

\* _format_startup_failure: the fields interpolated into the message.
format_startup_failure ==
    <<"failed to start", "sys.executable", "SERVER_URL", "LOG_DIR", "log tail",
      "SERVER_PORT", "server.log", "LOG_FILE", "manual start command">>

Returned(status, h) ==
    [status |-> status, pid |-> h.pid, ver |-> h.ver, uptime |-> h.uptime,
     err |-> "-", msg |-> <<>>]

Raised(err, msg) ==
    [status |-> "raised", pid |-> None, ver |-> "-", uptime |-> 0,
     err |-> err, msg |-> msg]

\* ---- initial state -------------------------------------------------------

ForeignService(ver, perm) ==
    [kind |-> "service", alive |-> TRUE, ver |-> ver, target |-> None,
     own |-> FALSE, perm |-> perm]

\* The endpoint is free, or a service somebody else started listens on it:
\* with the expected version, or with a stale one (which this user may or
\* may not be permitted to signal).
Init ==
    /\ procs \in {<<>>,
                  <<ForeignService(ExpectedVersion, TRUE)>>,
                  <<ForeignService(StaleVersion, TRUE)>>,
                  <<ForeignService(StaleVersion, FALSE)>>}
    /\ port = IF procs = <<>> THEN None ELSE 1
    /\ sent = {}
    /\ server_proc = None
    /\ server_monitor = None
    /\ sup = "running"
    /\ exitPath = "none"
    /\ mpc = "idle"
    /\ i = 0
    /\ old_pid = None
    /\ health = NoHealth
    /\ result = NoResult
    /\ calls = 0
    /\ cpc = [c \in Ctx |-> "none"]
    /\ cobj = [c \in Ctx |-> None]
    /\ ppidChanged = FALSE
    /\ sigs = 0
    /\ served = None
    /\ SESSION_ID = "s1"
    /\ ServeIdle
    /\ peer = PeerIdle

\* ---- the primary thread: view_data / buckaroo_table ----------------------

\* The primary thread runs its own code unless the process has exited or a
\* signal handler is executing on top of it.
MainRuns == sup = "running" /\ cpc["handler"] = "none"

envVars == <<ppidChanged, sigs, sup, exitPath>>
cleanupVars == <<cpc, cobj>>

\* Positions inside a tool call.
ToolPcs == {"e197", "e214", "e217", "e218", "e229", "e230", "e234", "load",
            "failed"}

\* _view_impl up to the call of ensure_server.
view_start ==
    /\ MainRuns /\ mpc = "idle" /\ calls < MaxCalls
    /\ calls' = calls + 1
    /\ mpc' = "e197"
    /\ UNCHANGED <<procs, port, sent, server_proc, server_monitor, i, old_pid,
                   health, result, served, envVars, cleanupVars>>
    /\ UNCHANGED <<serveVars, peer>>

\* An exception leaves ensure_server and reaches _view_impl's handler.
FailCall(err, msg) ==
    /\ mpc' = "failed"
    /\ result' = Raised(err, msg)
    /\ old_pid' = None
    /\ health' = NoHealth

\* ensure_server returns its dict to _view_impl.
ReturnCall(status, h) ==
    /\ mpc' = "load"
    /\ health' = h
    /\ result' = Returned(status, h)
    /\ served' = h.pid
    /\ old_pid' = old_pid

\* Mutant: the comparison reads the wrong way round.
version_matches_inverted(h) == h.ver # ExpectedVersion

\* Line 200: running_version == expected_version.
version_matches(h) == h.ver = ExpectedVersion

\* ensure_server, lines 197-211: the first probe and the version comparison.
ensure_probe ==
    /\ MainRuns /\ mpc = "e197"
    /\ \E o \in ProbeOutcomes, u \in Uptimes :
         LET h == health_check(o, u) IN
         CASE h.k = "raise" ->
                /\ FailCall(h.err, <<>>)
                /\ UNCHANGED served
           [] h.k = "report" /\ version_matches(h) ->
                ReturnCall("reused", h)
           [] h.k = "report" /\ ~version_matches(h) ->
                /\ health' = h
                /\ old_pid' = h.pid
                /\ mpc' = IF h.pid # None THEN "e214" ELSE "e229"
                /\ UNCHANGED <<result, served>>
           [] OTHER ->
                /\ health' = h
                /\ mpc' = "e229"
                /\ UNCHANGED <<old_pid, result, served>>
    /\ UNCHANGED <<procs, port, sent, server_proc, server_monitor, i, calls,
                   envVars, cleanupVars>>
    /\ UNCHANGED <<serveVars, peer>>

\* os.kill raises OSError when the target is gone or may not be signalled.
KillFails(p) == ~Alive(p) \/ ~procs[p].perm

\* Lines 213-215: SIGTERM to the stale service, then sleep(1).
ensure_term_old ==
    /\ MainRuns /\ mpc = "e214"
    /\ IF KillFails(old_pid)
       THEN /\ mpc' = "e229"
            /\ UNCHANGED sent
       ELSE /\ sent' = sent \cup {[to |-> old_pid, sig |-> "TERM", by |-> "ensure"]}
            /\ mpc' = "e217"
    /\ UNCHANGED <<procs, port, server_proc, server_monitor, i, old_pid, health,
                   result, calls, served, envVars, cleanupVars>>
    /\ UNCHANGED <<serveVars, peer>>

\* Line 217: the re-probe after the wait.
ensure_reprobe ==
    /\ MainRuns /\ mpc = "e217"
    /\ \E o \in ProbeOutcomes, u \in Uptimes :
         LET h == health_check(o, u) IN
         CASE h.k = "raise" -> FailCall(h.err, <<>>)
           [] h.k = "report" ->
                /\ mpc' = "e218"
                /\ UNCHANGED <<old_pid, health, result>>
           [] OTHER ->
                /\ mpc' = "e229"
                /\ UNCHANGED <<old_pid, health, result>>
    /\ UNCHANGED <<procs, port, sent, server_proc, server_monitor, i, calls,
                   served, envVars, cleanupVars>>
    /\ UNCHANGED <<serveVars, peer>>

\* Lines 218-219: SIGKILL to the stale service, then sleep(0.5).
ensure_kill_old ==
    /\ MainRuns /\ mpc = "e218"
    /\ IF KillFails(old_pid)
       THEN UNCHANGED <<sent, procs, port>>
       ELSE /\ sent' = sent \cup {[to |-> old_pid, sig |-> "KILL", by |-> "ensure"]}
            /\ procs' = Die(old_pid)
            /\ port' = PortAfterDeath(old_pid)
    /\ mpc' = "e229"
    /\ UNCHANGED <<server_proc, server_monitor, i, old_pid, health, result,
                   calls, served, envVars, cleanupVars>>
    /\ UNCHANGED <<serveVars, peer>>

OwnService ==
    [kind |-> "service", alive |-> TRUE, ver |-> ExpectedVersion,
     target |-> None, own |-> TRUE, perm |-> TRUE]

Watchdog(server_pid) ==
    [kind |-> "watchdog", alive |-> TRUE, ver |-> "-", target |-> server_pid,
     own |-> TRUE, perm |-> TRUE]

\* Line 229: _server_proc = subprocess.Popen(cmd, ...).
ensure_spawn ==
    /\ MainRuns /\ mpc = "e229"
    /\ procs' = Append(procs, OwnService)
    /\ server_proc' = Len(procs) + 1
    /\ mpc' = "e230"
    /\ UNCHANGED <<port, sent, server_monitor, i, old_pid, health, result,
                   calls, served, envVars, cleanupVars>>
    /\ UNCHANGED <<serveVars, peer>>

\* Line 230 with _start_server_monitor: reads the global _server_proc again
\* for its pid (an AttributeError if it has been cleared meanwhile), then
\* spawns the watchdog bound to that pid and stores its Popen object.
start_server_monitor ==
    /\ MainRuns /\ mpc = "e230"
    /\ IF server_proc = None
       THEN /\ FailCall("AttributeError", <<>>)
            /\ UNCHANGED <<procs, server_monitor>>
       ELSE /\ procs' = Append(procs, Watchdog(server_proc))
            /\ server_monitor' = Len(procs) + 1
            /\ mpc' = "e234"
            /\ UNCHANGED <<old_pid, health, result>>
    /\ UNCHANGED <<port, sent, server_proc, i, calls, served, envVars,
                   cleanupVars>>
    /\ UNCHANGED <<serveVars, peer>>

\* Mutant: the loop is one iteration short.
in_budget_short(n) == n < ReadinessBudget - 1

\* Line 232: for i in range(20).
in_budget(n) == n < ReadinessBudget

\* Lines 232-252: one iteration of the readiness loop (sleep, probe), and the
\* RuntimeError once range(20) is exhausted.
ensure_ready ==
    /\ MainRuns /\ mpc = "e234"
    /\ \E o \in ProbeOutcomes, u \in Uptimes :
         LET h == health_check(o, u) IN
         CASE h.k = "raise" ->
                /\ FailCall(h.err, <<>>)
                /\ UNCHANGED <<i, served>>
           [] h.k = "report" ->
                /\ ReturnCall("started", h)
                /\ UNCHANGED i
           [] h.k = "none" /\ in_budget(i + 1) ->
                /\ i' = i + 1
                /\ health' = h
                /\ UNCHANGED <<mpc, old_pid, result, served>>
           [] OTHER ->
                /\ FailCall("RuntimeError", format_startup_failure)
                /\ i' = i + 1
                /\ UNCHANGED served
    /\ UNCHANGED <<procs, port, sent, server_proc, server_monitor, calls,
                   envVars, cleanupVars>>
    /\ UNCHANGED <<serveVars, peer>>

\* The locals of a finished call are gone.
CallOver ==
    /\ mpc' = "idle"
    /\ i' = 0
    /\ old_pid' = None
    /\ health' = NoHealth
    /\ result' = NoResult

\* _view_impl, lines 266-309: the POST /load that follows a returned
\* ensure_server, and the summary.
view_load ==
    /\ MainRuns /\ mpc = "load"
    /\ CallOver
    /\ UNCHANGED <<procs, port, sent, server_proc, server_monitor, calls,
                   served, envVars, cleanupVars>>
    /\ UNCHANGED <<serveVars, peer>>

\* _view_impl, lines 262-264: the exception of ensure_server is logged and
\* raised again; the tool call ends in an error and no load is sent.
view_fail ==
    /\ MainRuns /\ mpc = "failed"
    /\ CallOver
    /\ UNCHANGED <<procs, port, sent, server_proc, server_monitor, calls,
                   served, envVars, cleanupVars>>
    /\ UNCHANGED <<serveVars, peer>>

\* ---- _cleanup_server ------------------------------------------------------

\* An invocation runs in the thread of its trigger: the exit hook and the
\* signal handler on the primary thread (the handler on top of whatever the
\* primary thread was doing), the orphan detector on its own thread.
CleanupRuns(c) ==
    sup = "running" /\ (c = "atexit" => cpc["handler"] \in {"none", "returned"})

Goto(c, pc) == cpc' = [cpc EXCEPT ![c] = pc]

mainVars == <<mpc, i, old_pid, health, result, calls, served>>

\* Line 71: if _server_proc is not None.
cleanup_check_proc(c) ==
    /\ CleanupRuns(c) /\ cpc[c] = "c71"
    /\ Goto(c, IF server_proc # None THEN "c73" ELSE "c84")
    /\ UNCHANGED <<procs, port, sent, server_proc, server_monitor, cobj,
                   mainVars, envVars>>
    /\ UNCHANGED <<serveVars, peer>>

\* Lines 73-77: _server_proc.poll(), .terminate(), and the start of .wait().
\* The global is read again: None has no poll(), and the AttributeError is
\* not an OSError, so it leaves _cleanup_server.
cleanup_terminate(c) ==
    /\ CleanupRuns(c) /\ cpc[c] = "c73"
    /\ IF server_proc = None
       THEN /\ Goto(c, "raised")
            /\ UNCHANGED <<sent, cobj>>
       ELSE IF Alive(server_proc)
       THEN /\ sent' = sent \cup {[to |-> server_proc, sig |-> "TERM", by |-> c]}
            /\ cobj' = [cobj EXCEPT ![c] = server_proc]
            /\ Goto(c, "c77")
       ELSE /\ Goto(c, "c83")
            /\ UNCHANGED <<sent, cobj>>
    /\ UNCHANGED <<procs, port, server_proc, server_monitor, mainVars, envVars>>
    /\ UNCHANGED <<serveVars, peer>>

\* Lines 77-79: wait(timeout=3) returns when the process has exited, and
\* raises TimeoutExpired when it has not.
cleanup_wait(c) ==
    /\ CleanupRuns(c) /\ cpc[c] = "c77"
    /\ Goto(c, IF Alive(cobj[c]) THEN "c80" ELSE "c83")
    /\ cobj' = [cobj EXCEPT ![c] = None]
    /\ UNCHANGED <<procs, port, sent, server_proc, server_monitor, mainVars,
                   envVars>>
    /\ UNCHANGED <<serveVars, peer>>

\* Line 80: _server_proc.kill(), on the global as it is now.
cleanup_kill(c) ==
    /\ CleanupRuns(c) /\ cpc[c] = "c80"
    /\ IF server_proc = None
       THEN /\ Goto(c, "raised")
            /\ UNCHANGED <<sent, procs, port>>
       ELSE /\ Goto(c, "c83")
            /\ IF Alive(server_proc)
               THEN /\ sent' = sent \cup
                          {[to |-> server_proc, sig |-> "KILL", by |-> c]}
                    /\ procs' = Die(server_proc)
                    /\ port' = PortAfterDeath(server_proc)
               ELSE UNCHANGED <<sent, procs, port>>
    /\ UNCHANGED <<server_proc, server_monitor, cobj, mainVars, envVars>>
    /\ UNCHANGED <<serveVars, peer>>

\* Mutant: the handle is not cleared after acting on it.
cleanup_keep_proc(c) ==
    /\ CleanupRuns(c) /\ cpc[c] = "c83"
    /\ Goto(c, "c84")
    /\ UNCHANGED <<procs, port, sent, server_proc, server_monitor, cobj,
                   mainVars, envVars>>
    /\ UNCHANGED <<serveVars, peer>>

\* Line 83: _server_proc = None.
cleanup_clear_proc(c) ==
    /\ CleanupRuns(c) /\ cpc[c] = "c83"
    /\ server_proc' = None
    /\ Goto(c, "c84")
    /\ UNCHANGED <<procs, port, sent, server_monitor, cobj, mainVars, envVars>>
    /\ UNCHANGED <<serveVars, peer>>

\* Line 84: if _server_monitor is not None.
cleanup_check_monitor(c) ==
    /\ CleanupRuns(c) /\ cpc[c] = "c84"
    /\ Goto(c, IF server_monitor # None THEN "c86" ELSE "done")
    /\ UNCHANGED <<procs, port, sent, server_proc, server_monitor, cobj,
                   mainVars, envVars>>
    /\ UNCHANGED <<serveVars, peer>>

\* Line 86: _server_monitor.terminate(). The watchdog has no handler for
\* SIGTERM and dies of it.
cleanup_terminate_monitor(c) ==
    /\ CleanupRuns(c) /\ cpc[c] = "c86"
    /\ IF server_monitor = None
       THEN /\ Goto(c, "raised")
            /\ UNCHANGED <<sent, procs>>
       ELSE /\ Goto(c, "c87")
            /\ IF Alive(server_monitor)
               THEN /\ sent' = sent \cup
                          {[to |-> server_monitor, sig |-> "TERM", by |-> c]}
                    /\ procs' = Die(server_monitor)
               ELSE UNCHANGED <<sent, procs>>
    /\ UNCHANGED <<port, server_proc, server_monitor, cobj, mainVars, envVars>>
    /\ UNCHANGED <<serveVars, peer>>

\* Line 87: _server_monitor.wait(timeout=2).
cleanup_wait_monitor(c) ==
    /\ CleanupRuns(c) /\ cpc[c] = "c87"
    /\ Goto(c, IF server_monitor = None THEN "raised" ELSE "c90")
    /\ UNCHANGED <<procs, port, sent, server_proc, server_monitor, cobj,
                   mainVars, envVars>>
    /\ UNCHANGED <<serveVars, peer>>

\* Line 90: _server_monitor = None.
cleanup_clear_monitor(c) ==
    /\ CleanupRuns(c) /\ cpc[c] = "c90"
    /\ server_monitor' = None
    /\ Goto(c, "done")
    /\ UNCHANGED <<procs, port, sent, server_proc, cobj, mainVars, envVars>>
    /\ UNCHANGED <<serveVars, peer>>

cleanup_server(c) ==
    \/ cleanup_check_proc(c)
    \/ cleanup_terminate(c)
    \/ cleanup_wait(c)
    \/ cleanup_kill(c)
    \/ cleanup_clear_proc(c)
    \/ cleanup_check_monitor(c)
    \/ cleanup_terminate_monitor(c)
    \/ cleanup_wait_monitor(c)
    \/ cleanup_clear_monitor(c)

\* ---- exit paths ----------------------------------------------------------

\* The process is gone, and with it its threads and their locals. The two
\* handles keep their last values for the record.
Exit(path) ==
    /\ sup' = "exited"
    /\ exitPath' = path
    /\ mpc' = "gone"
    /\ i' = 0
    /\ old_pid' = None
    /\ health' = NoHealth
    /\ result' = NoResult
    /\ cpc' = [c \in Ctx |-> "none"]
    /\ cobj' = [c \in Ctx |-> None]

\* mcp.run() returns in main(): the interpreter runs the atexit hook.
main_returns ==
    /\ MainRuns /\ mpc = "idle"
    /\ mpc' = "atexit"
    /\ Goto("atexit", "c71")
    /\ UNCHANGED <<procs, port, sent, server_proc, server_monitor, i, old_pid,
                   health, result, calls, served, cobj, envVars>>
    /\ UNCHANGED <<serveVars, peer>>

\* The atexit hook is over (an exception in it is printed and dropped) and
\* the process exits.
atexit_finish ==
    /\ MainRuns /\ mpc = "atexit" /\ cpc["atexit"] \in {"done", "raised"}
    /\ Exit("normal")
    /\ UNCHANGED <<procs, port, sent, server_proc, server_monitor, calls,
                   served, ppidChanged, sigs>>
    /\ UNCHANGED <<serveVars, peer>>

\* SIGTERM or SIGINT arrives: _signal_handler starts on the primary thread,
\* on top of what that thread was doing. The interrupted code never resumes
\* where it was (the handler ends in the death of the process or in an
\* exception), so only its kind is kept: a tool call, the exit hook, or the
\* event loop.
signal_handler_start ==
    /\ MainRuns /\ sigs < MaxSignals /\ mpc \in ToolPcs \cup {"idle", "atexit"}
    /\ sigs' = sigs + 1
    /\ mpc' = IF mpc \in ToolPcs THEN "tool" ELSE mpc
    /\ i' = 0
    /\ old_pid' = None
    /\ health' = NoHealth
    /\ result' = NoResult
    /\ cpc' = [cpc EXCEPT !["handler"] = "c71",
                          !["atexit"] = IF mpc = "atexit" THEN "preempted" ELSE @]
    /\ cobj' = [cobj EXCEPT !["atexit"] = None]
    /\ UNCHANGED <<procs, port, sent, server_proc, server_monitor, calls,
                   served, ppidChanged, sup, exitPath>>
    /\ UNCHANGED <<serveVars, peer>>

\* Lines 101-102: the default disposition is restored and the signal sent
\* to the process itself, which dies of it.
signal_handler_finish ==
    /\ sup = "running" /\ cpc["handler"] = "done"
    /\ Exit("signal")
    /\ UNCHANGED <<procs, port, sent, server_proc, server_monitor, calls,
                   served, ppidChanged, sigs>>
    /\ UNCHANGED <<serveVars, peer>>

\* _cleanup_server raised inside the handler: lines 101-102 are skipped and
\* the exception surfaces in the code the handler interrupted. A tool call
\* ends in an error; the event loop of mcp.run() ends and the interpreter
\* goes to its exit hook; the exit hook ends.
signal_handler_raise ==
    /\ sup = "running" /\ cpc["handler"] = "raised"
    /\ CASE mpc = "atexit" ->
              /\ cpc' = [cpc EXCEPT !["handler"] = "none", !["atexit"] = "raised"]
              /\ UNCHANGED <<mpc, result>>
         [] mpc = "idle" ->
              /\ cpc' = [cpc EXCEPT !["handler"] = "none", !["atexit"] = "c71"]
              /\ mpc' = "atexit"
              /\ UNCHANGED result
         [] OTHER ->
              /\ cpc' = [cpc EXCEPT !["handler"] = "none"]
              /\ mpc' = "failed"
              /\ result' = Raised("AttributeError", <<>>)
    /\ UNCHANGED <<procs, port, sent, server_proc, server_monitor, i, old_pid,
                   health, calls, served, cobj, envVars>>
    /\ UNCHANGED <<serveVars, peer>>

\* _watcher, lines 413-418: the poll that finds os.getppid() changed.
watcher_detects ==
    /\ sup = "running" /\ cpc["watcher"] = "none" /\ ppidChanged
    /\ Goto("watcher", "c71")
    /\ UNCHANGED <<procs, port, sent, server_proc, server_monitor, mainVars,
                   cobj, envVars>>
    /\ UNCHANGED <<serveVars, peer>>

\* Line 419: os._exit(0) once _cleanup_server has returned.
watcher_exit ==
    /\ sup = "running" /\ cpc["watcher"] = "done"
    /\ Exit("orphan")
    /\ UNCHANGED <<procs, port, sent, server_proc, server_monitor, calls,
                   served, ppidChanged, sigs>>
    /\ UNCHANGED <<serveVars, peer>>

\* ---- the environment -----------------------------------------------------

\* The supervisor's parent dies and the supervisor is reparented.
parent_dies ==
    /\ sup = "running" /\ ~ppidChanged
    /\ ppidChanged' = TRUE
    /\ UNCHANGED <<procs, port, sent, server_proc, server_monitor, mainVars,
                   cleanupVars, sigs, sup, exitPath>>
    /\ UNCHANGED <<serveVars, peer>>

\* SIGKILL to the supervisor: no code of it runs any more.
supervisor_killed ==
    /\ sup = "running"
    /\ Exit("killed")
    /\ UNCHANGED <<procs, port, sent, server_proc, server_monitor, calls,
                   served, ppidChanged, sigs>>
    /\ UNCHANGED <<serveVars, peer>>

\* A launched service tries to listen: it gets the port if it is free, and
\* exits on the bind error if it is not.
service_bind(p) ==
    /\ p \in LiveServices /\ procs[p].own /\ port # p
    /\ IF port = None
       THEN /\ port' = p
            /\ UNCHANGED procs
       ELSE /\ procs' = Die(p)
            /\ UNCHANGED port
    /\ UNCHANGED <<sent, server_proc, server_monitor, mainVars, cleanupVars,
                   envVars>>
    /\ UNCHANGED <<serveVars, peer>>

\* A service that was sent SIGTERM exits.
service_exits_on_term(p) ==
    /\ p \in LiveServices
    /\ \E s \in sent : s.to = p /\ s.sig = "TERM"
    /\ procs' = Die(p)
    /\ port' = PortAfterDeath(p)
    /\ UNCHANGED <<sent, server_proc, server_monitor, mainVars, cleanupVars,
                   envVars>>
    /\ UNCHANGED <<serveVars, peer>>

\* Mutant: the watchdog's read returns without the pipe having been closed.
monitor_code_eager(w) ==
    /\ w \in Watchdogs /\ procs[w].alive
    /\ LET t == procs[w].target IN
         sent' = IF Alive(t)
                 THEN sent \cup {[to |-> t, sig |-> "TERM", by |-> "watchdog"]}
                 ELSE sent
    /\ procs' = Die(w)
    /\ UNCHANGED <<port, server_proc, server_monitor, mainVars, cleanupVars,
                   envVars>>
    /\ UNCHANGED <<serveVars, peer>>

\* The watchdog of _start_server_monitor, lines 49-57: its read of stdin
\* returns once the supervisor, the only holder of the pipe's write end, is
\* gone; it then sends SIGTERM to server_pid (an OSError if that process is
\* gone is ignored) and exits.
monitor_code(w) ==
    /\ w \in Watchdogs /\ procs[w].alive /\ sup = "exited"
    /\ LET t == procs[w].target IN
         sent' = IF Alive(t)
                 THEN sent \cup {[to |-> t, sig |-> "TERM", by |-> "watchdog"]}
                 ELSE sent
    /\ procs' = Die(w)
    /\ UNCHANGED <<port, server_proc, server_monitor, mainVars, cleanupVars,
                   envVars>>
    /\ UNCHANGED <<serveVars, peer>>

\* ---- the specification ---------------------------------------------------

ensure_server ==
    \/ ensure_probe
    \/ ensure_term_old
    \/ ensure_reprobe
    \/ ensure_kill_old
    \/ ensure_spawn
    \/ start_server_monitor
    \/ ensure_ready

Next ==
    \/ view_start
    \/ ensure_server
    \/ view_load
    \/ view_fail
    \/ \E c \in Ctx : cleanup_server(c)
    \/ main_returns
    \/ atexit_finish
    \/ signal_handler_start
    \/ signal_handler_finish
    \/ signal_handler_raise
    \/ watcher_detects
    \/ watcher_exit
    \/ parent_dies
    \/ supervisor_killed
    \/ \E p \in Pids : service_bind(p)
    \/ \E p \in Pids : service_exits_on_term(p)
    \/ \E w \in Pids : monitor_code(w)

Spec == Init /\ [][Next]_vars

\* ---- claims --------------------------------------------------------------

\* C1: idempotence of ensure_server. Every call (in particular the second of
\* two calls in immediate succession) whose first probe is answered with a
\* report of the expected version returns "reused" with the pid and uptime
\* of that report, and in doing so spawns no process, sends no signal and
\* leaves both handles as they were.
C1_ReusedIsIdempotent ==
    [][(mpc = "e197" /\ health'.k = "report" /\ health'.ver = ExpectedVersion)
       => /\ mpc' = "load"
          /\ result'.status = "reused"
          /\ result'.pid = health'.pid
          /\ result'.uptime = health'.uptime
          /\ procs' = procs
          /\ sent' = sent
          /\ server_proc' = server_proc
          /\ server_monitor' = server_monitor]_vars

\* C1 witness: the second call has returned "reused" for the live service
\* that the first call launched.
C1_Witness ==
    /\ calls = 2 /\ mpc = "load" /\ result.status = "reused"
    /\ result.pid = server_proc /\ Alive(server_proc)
    /\ Len(procs) = 2

\* C2 (as claimed): an ensure_server call that met a stale version and
\* returned leaves exactly one live service process, which is the one whose
\* report it returns, of the expected version and with a pid other than the
\* stale one.
C2_MismatchLeavesOneNewService ==
    [][(mpc # "load" /\ mpc' = "load" /\ old_pid' # None)
       => /\ Cardinality(LiveServices') = 1
          /\ result'.pid \in LiveServices'
          /\ result'.ver = ExpectedVersion
          /\ result'.pid # old_pid']_vars

\* A live watchdog bound to p: the process that will send p a SIGTERM once
\* the supervisor is gone.
WatchedBy(p) == {w \in Watchdogs : procs[w].alive /\ procs[w].target = p}

OwnLiveServices == {p \in LiveServices : procs[p].own}

\* C3 (as claimed): once the supervisor has been killed, every service it
\* launched that is still running has been sent a termination signal or has
\* a live watchdog bound to it, the one process left that will send it.
C3_KilledSupervisorServiceSignalled ==
    exitPath = "killed" =>
        \A p \in OwnLiveServices :
            (\E s \in sent : s.to = p) \/ WatchedBy(p) # {}

\* C4 (as claimed): when the supervisor exits through the orphan detector,
\* no service it launched is still running without having been sent a
\* termination signal by _cleanup_server.
C4_OrphanExitAfterServiceTerminated ==
    exitPath = "orphan" =>
        \A p \in OwnLiveServices : \E s \in sent : s.to = p /\ s.by \in Ctx

\* C5: the startup failure is raised after exactly ReadinessBudget readiness
\* probes, none of which was answered; the loop never probes beyond the
\* budget; and the error text holds the server URL.
C5_TimeoutAfterBudget ==
    /\ i <= ReadinessBudget
    /\ (mpc = "e234" => i < ReadinessBudget)
    /\ (mpc = "failed" /\ result.err = "RuntimeError")
         => /\ i = ReadinessBudget
            /\ health.k = "none"
            /\ \E k \in DOMAIN result.msg : result.msg[k] = "SERVER_URL"

\* C5 witness: a call has failed with the startup error.
C5_Witness ==
    mpc = "failed" /\ result.err = "RuntimeError" /\ i = ReadinessBudget

\* C7 (as claimed): no _cleanup_server invocation ends in an uncaught error,
\* and no process is signalled both by the orphan detector's invocation and
\* by an invocation on the primary thread.
C7_CleanupsDoNotCollide ==
    /\ \A c \in Ctx : cpc[c] # "raised"
    /\ \A p \in Pids :
         ~ /\ \E s \in sent : s.to = p /\ s.by = "watcher"
           /\ \E s \in sent : s.to = p /\ s.by \in {"atexit", "handler"}

\* C8 (as claimed): no caller of _health_check ever sees it raise; whatever
\* the GET /health meets, it returns a report or None, and a report only
\* for a 200 answer with a well-formed body.
C8_HealthCheckNeverRaises ==
    /\ ~(mpc = "failed" /\ result.err = "JSONDecodeError")
    /\ \A o \in ProbeOutcomes, u \in Uptimes :
         health_check(o, u).k = "report" => o = "ok200"

\* C9 (as claimed): whenever a POST /load is about to be sent, the
\* ensure_server of the same call has returned, on a health report of the
\* expected version.
C9_LoadFollowsConfirmedService ==
    mpc = "load" =>
        /\ result.status \in {"reused", "started"}
        /\ result.ver = ExpectedVersion

\* C10 (as claimed): once the supervisor has exited, by whatever path, the
\* service its last returned ensure_server reported, if still running, has
\* been sent a termination signal or has a live watchdog bound to it.
C10_ExitSignalsServedService ==
    (sup = "exited" /\ Alive(served)) =>
        (\E s \in sent : s.to = served) \/ WatchedBy(served) # {}

\* ---- _cleanup_server run twice in a row ----------------------------------

\* What _cleanup_server can find when it is invoked: nothing launched; a
\* service and its watchdog; a service whose watchdog is not spawned yet.
\* The service runs or has exited, and listens or not.
CleanupInputs ==
    {[procs |-> <<>>, server_proc |-> None, server_monitor |-> None]}
    \cup {[procs |-> <<[OwnService EXCEPT !.alive = a], Watchdog(1)>>,
           server_proc |-> 1, server_monitor |-> 2] : a \in BOOLEAN}
    \cup {[procs |-> <<[OwnService EXCEPT !.alive = a]>>,
           server_proc |-> 1, server_monitor |-> None] : a \in BOOLEAN}

CleanupInit ==
    /\ \E in \in CleanupInputs :
         /\ procs = in.procs
         /\ server_proc = in.server_proc
         /\ server_monitor = in.server_monitor
    /\ port \in {None} \cup {p \in Pids : p \in LiveServices}
    /\ sent = {}
    /\ sup = "running"
    /\ exitPath = "none"
    /\ \E c \in Ctx :
         /\ cpc = [d \in Ctx |-> IF d = c THEN "c71" ELSE "none"]
         /\ mpc = IF c = "atexit" THEN "atexit" ELSE "idle"
         /\ ppidChanged = (c = "watcher")
         /\ sigs = IF c = "handler" THEN 1 ELSE 0
    /\ i = 0
    /\ old_pid = None
    /\ health = NoHealth
    /\ result = NoResult
    /\ calls = 0
    /\ cobj = [c \in Ctx |-> None]
    /\ served = None
    /\ SESSION_ID = "s1"
    /\ ServeIdle
    /\ peer = PeerIdle

\* The invocation of one trigger has returned ("returned" marks it as the
\* earlier one) and, before the process exits, another trigger invokes
\* _cleanup_server.
cleanup_again(c) ==
    /\ sup = "running" /\ cpc[c] = "none"
    /\ \E d \in Ctx :
         /\ cpc[d] = "done"
         /\ \A e \in Ctx \ {d} : cpc[e] = "none"
         /\ cpc' = [cpc EXCEPT ![d] = "returned", ![c] = "c71"]
    /\ UNCHANGED <<procs, port, sent, server_proc, server_monitor, cobj,
                   mainVars, envVars>>
    /\ UNCHANGED <<serveVars, peer>>

CleanupNext ==
    \/ \E c \in Ctx : cleanup_server(c)
    \/ \E c \in Ctx : cleanup_again(c)
    \/ \E p \in Pids : service_exits_on_term(p)

CleanupSpec == CleanupInit /\ [][CleanupNext]_vars

\* C6: _cleanup_server is idempotent. Once an invocation has returned both
\* handles are cleared; an invocation that follows it, from whichever
\* trigger, takes neither branch, raises nothing, sends no signal and leaves
\* both handles cleared.
C6_CleanupIdempotent ==
    \A c \in Ctx :
        /\ cpc[c] = "done" => server_proc = None /\ server_monitor = None
        /\ cpc[c] = "returned" =>
              /\ server_proc = None
              /\ server_monitor = None
              /\ \A d \in Ctx \ {c} :
                   cpc[d] # "none" =>
                      /\ cpc[d] \in {"c71", "c84", "done"}
                      /\ \A s \in sent : s.by # d

\* C6 witness: a first invocation that signalled the service and the
\* watchdog has returned, and so has a second one.
C6_Witness ==
    \E c, d \in Ctx :
        /\ c # d /\ cpc[c] = "returned" /\ cpc[d] = "done"
        /\ \E s \in sent : s.by = c /\ s.to = 1
        /\ \E s \in sent : s.by = c /\ s.to = 2

\* ---- launch, teardown and shutdown order ---------------------------------

\* C11 (as claimed): ensure_server reaches the launch (line 229) only from a
\* probe that returned absent (the first probe, or the re-probe that follows
\* the SIGTERM): before a new service is created, a probe has confirmed that
\* none is answering at the endpoint.
C11_LaunchOnlyOnConfirmedFreeEndpoint ==
    [][(mpc # "e229" /\ mpc' = "e229")
       => /\ mpc \in {"e197", "e217"}
          /\ (mpc = "e197" => health'.k = "none")]_vars

\* C12 (as claimed): once _signal_handler has started, the supervisor never
\* runs anything but the handler again: the handler ends only with the death
\* of the process, and a death by the signal comes only after the handler's
\* _cleanup_server has run to completion.
C12_HandlerEndsInTermination ==
    [][/\ (cpc["handler"] # "none"
             => (cpc'["handler"] # "none" \/ sup' = "exited"))
       /\ ((exitPath # "signal" /\ exitPath' = "signal")
             => cpc["handler"] = "done")]_vars

\* C14 (as claimed): a kill call that fails raises nothing and leads to the
\* launch, and a call whose stale service is still alive and holds the port
\* never returns 'started'.
C14_BestEffortTeardownThenTimeout ==
    [][/\ ((mpc \in {"e214", "e218"} /\ mpc' \in ToolPcs \ {mpc}
               /\ KillFails(old_pid))
             => mpc' = "e229")
       /\ ((mpc = "e234" /\ mpc' = "load")
             => ~(old_pid # None /\ Alive(old_pid) /\ port = old_pid))]_vars

\* The signals ensure_server itself has sent.
TeardownSignals == {s \in sent : s.by = "ensure"}

\* C17 (as claimed): ensure_server signals only a service whose report had
\* another version than the expected one; SIGTERM comes first; SIGKILL comes
\* only after it, from the position that follows a re-probe that was
\* answered; and every step of the teardown leads on towards the launch.
C17_TeardownEscalation ==
    [][/\ (TeardownSignals' # TeardownSignals
             => /\ mpc \in {"e214", "e218"}
                /\ health.k = "report" /\ health.ver # ExpectedVersion
                /\ \E s \in TeardownSignals' \ TeardownSignals :
                     /\ s.to = old_pid
                     /\ s.sig = (IF mpc = "e214" THEN "TERM" ELSE "KILL")
                     /\ (s.sig = "KILL"
                           => [to |-> old_pid, sig |-> "TERM", by |-> "ensure"]
                                 \in TeardownSignals))
       /\ ((mpc # "e218" /\ mpc' = "e218") => mpc = "e217")
       /\ ((mpc \in {"e214", "e217", "e218"} /\ mpc' \in ToolPcs \ {mpc})
             => mpc' \in {"e217", "e218", "e229"})]_vars

\* C18: the watchdog never fires early. While the supervisor is alive (it
\* never closes the write end of a watchdog's pipe, and never writes to it)
\* no watchdog has sent a signal, and every step in which a watchdog sends
\* one is taken after the supervisor's exit.
C18_WatchdogNeverFiresEarly ==
    /\ sup = "running" => \A s \in sent : s.by # "watchdog"
    /\ \A s \in sent : s.by = "watchdog" => s.sig = "TERM" /\ s.to \in Services

\* C18 witness: two completed launches; both watchdogs, the one that is no
\* longer referenced included, are alive beside a live service they are bound
\* to, and the supervisor is running.
C18_Witness ==
    /\ sup = "running" /\ mpc = "idle" /\ calls = 2
    /\ Cardinality({w \in Watchdogs : procs[w].alive}) = 2
    /\ \E w \in Watchdogs : procs[w].alive /\ Alive(procs[w].target)

\* C19 (as claimed): outside the launch step itself, whenever the service
\* handle is set the watchdog handle is set too and refers to a watchdog
\* bound to the pid held in the service handle.
C19_HandleHasWatchdog ==
    (/\ sup = "running" /\ cpc["handler"] = "none"
     /\ mpc \in {"e234", "load", "failed", "idle"}
     /\ server_proc # None)
       => /\ server_monitor \in Watchdogs
          /\ procs[server_monitor].target = server_proc

\* ---- the request path: what a tool call sends, returns and logs ----------

\* str(n) for a natural number, one character per element.
DigitChars == <<"0", "1", "2", "3", "4", "5", "6", "7", "8", "9">>

RECURSIVE str(_)
str(n) ==
    IF n < 10 THEN <<DigitChars[n + 1]>>
    ELSE Append(str(n \div 10), DigitChars[(n % 10) + 1])

\* The three digits of a group below the leading one.
Group3(m) ==
    <<DigitChars[(m \div 100) + 1], DigitChars[((m \div 10) % 10) + 1],
      DigitChars[(m % 10) + 1]>>

\* Mutant: the row count is written without separators.
format_plain(n) == str(n)

\* f"{rows:,}": decimal digits in groups of three separated by commas.
RECURSIVE format_thousands(_)
format_thousands(n) ==
    IF n < 1000 THEN str(n)
    ELSE format_thousands(n \div 1000) \o <<",">> \o Group3(n % 1000)

\* "\n".join(f"  - {c['name']} ({c['dtype']})" for c in cols)
RECURSIVE col_lines(_)
col_lines(cols) ==
    IF cols = <<>> THEN <<>>
    ELSE LET line == <<"  - ", cols[1].name, " (", cols[1].dtype, ")">> IN
         IF Len(cols) = 1 THEN line
         ELSE line \o <<"\n">> \o col_lines(Tail(cols))

\* f"{SERVER_URL}/s/{SESSION_ID}"
session_url(sid) == <<"SERVER_URL", "/s/", sid>>

\* Lines 291-306: the summary built from the parsed /load response.
summary(path, body, server_info, sid) ==
    <<"Loaded **", path, "** -- ">> \o format_thousands(body.rows)
    \o <<" rows, ">> \o str(Len(body.columns))
    \o <<" columns\n\nColumns:\n">> \o col_lines(body.columns)
    \o <<"\n\nInteractive view: ">> \o session_url(sid)
    \o <<"\nServer: pid=">> \o str(server_info.pid)
    \o <<" (", server_info.status, ") | Browser: ", body.browser_action,
         " | Session: ", sid>>

\* sub occurs in text as a run of consecutive elements.
Contains(text, sub) ==
    \E k \in 0..(Len(text) - Len(sub)) :
        \A j \in 1..Len(sub) : text[k + j] = sub[j]

\* Inputs of the request path.
Paths == {"test.csv"}

RowCounts == {0, 2, 999, 1000, 1234567}

ColumnLists ==
    {<<>>,
     <<[name |-> "name", dtype |-> "object"]>>,
     <<[name |-> "name", dtype |-> "object"],
       [name |-> "age", dtype |-> "int64"]>>}

ErrorBodies == {<<>>, <<"{\"error\": \"file not found\"}">>}

\* What urlopen of the POST /load can meet: a 200 answer with the JSON of
\* the load, a refused connection, a timeout, an HTTP error status with a
\* response body.
LoadOutcomes ==
    {[kind |-> "ok", rows |-> r, columns |-> c, browser_action |-> "opened"] :
        r \in RowCounts, c \in ColumnLists}
    \cup {[kind |-> "URLError"], [kind |-> "TimeoutError"]}
    \cup {[kind |-> "HTTPError", body |-> b] : b \in ErrorBodies}

\* The exception urlopen raises for an outcome: its type, its str(), the
\* body the server sent with it and the part of that body still unread in
\* the exception's file object.
load_exception(o) ==
    CASE o.kind = "HTTPError" ->
           [type |-> "HTTPError", msg |-> <<"HTTP Error 500">>,
            body |-> o.body, fp |-> o.body]
      [] o.kind = "URLError" ->
           [type |-> "URLError", msg |-> <<"Connection refused">>,
            body |-> <<>>, fp |-> <<>>]
      [] OTHER ->
           [type |-> "TimeoutError", msg |-> <<"timed out">>,
            body |-> <<>>, fp |-> <<>>]

\* Lines 278-287: the handler reads the body out of an exception that has a
\* read() (an HTTPError), logs it, and raises the same exception again. The
\* read leaves nothing in the exception's file object.
load_failed(exc) ==
    LET has_read == exc.type = "HTTPError"
        err_body == IF has_read THEN exc.fp ELSE <<>>
    IN [raised |-> IF has_read THEN [exc EXCEPT !.fp = <<>>] ELSE exc,
        logged |-> [level |-> "error", what |-> "load failed",
                    detail |-> err_body]]

\* Health reports that list static files. An entry says whether the file
\* exists and how long it is; "nosize" is an existing file without a
\* size_bytes entry.
AssetNames == {"standalone.js", "standalone.css"}

AssetInfos == {"present", "absent", "empty", "nosize"}

\* No file listed, or every file listed.
StaticFiles == {<<>>} \cup [AssetNames -> AssetInfos]

\* Mutant: no listed file is ever found missing.
missing_static_files_none(static_files) == {}

\* Lines 239-242: not info.get("exists") or info.get("size_bytes", 0) == 0.
missing_static_files(static_files) ==
    {n \in DOMAIN static_files : static_files[n] # "present"}

StaticWarning(missing) ==
    [level |-> "warning", what |-> "static files missing", detail |-> missing]

\* ---- what the MCP server registers ---------------------------------------

\* The panel URI the protocol tests ask for.
PanelUri == "ui://buckaroo/view.html"

\* The three @mcp.tool() registrations; none passes metadata.
mcp_tools ==
    {[name |-> "view_data", meta |-> {}],
     [name |-> "buckaroo_table", meta |-> {}],
     [name |-> "buckaroo_diagnostics", meta |-> {}]}

\* The @mcp.prompt() registration.
mcp_prompts == {"view"}

\* The module registers no resource: there is no @mcp.resource in it.
mcp_resources == {}

\* ---- the requests of an MCP client ---------------------------------------

supervisionVars ==
    <<procs, port, sent, server_proc, server_monitor, i, old_pid, health,
      result, calls, served, mpc, envVars, cleanupVars, peer>>

\* tools/list: the registered tools with their metadata.
list_tools ==
    /\ MainRuns /\ mpc = "idle"
    /\ reply' = [kind |-> "tools", tools |-> mcp_tools, prompts |-> mcp_prompts]
    /\ UNCHANGED <<supervisionVars, SESSION_ID, posted, log>>

\* resources/list: the URIs of the registered resources.
list_resources ==
    /\ MainRuns /\ mpc = "idle"
    /\ reply' = [kind |-> "resources", uris |-> {r.uri : r \in mcp_resources}]
    /\ UNCHANGED <<supervisionVars, SESSION_ID, posted, log>>

\* resources/read: the content of a registered resource, an error otherwise.
read_resource(uri) ==
    /\ MainRuns /\ mpc = "idle"
    /\ reply' = IF \E r \in mcp_resources : r.uri = uri
                THEN [kind |-> "resource", uri |-> uri,
                      mime |-> (CHOOSE r \in mcp_resources : r.uri = uri).mime]
                ELSE [kind |-> "unknown resource", uri |-> uri]
    /\ UNCHANGED <<supervisionVars, SESSION_ID, posted, log>>

\* Lines 234-249: a readiness probe answered by a report that lists static
\* files. The missing ones are logged as a warning; the return is the same.
ensure_ready_assets ==
    /\ MainRuns /\ mpc = "e234" /\ "ok200" \in ProbeOutcomes
    /\ \E u \in Uptimes, static_files \in StaticFiles :
         LET h == [static_files |-> static_files] @@ health_check("ok200", u)
             missing == missing_static_files(static_files)
         IN /\ ReturnCall("started", h)
            /\ log' = IF missing # {} THEN log \cup {StaticWarning(missing)}
                      ELSE log
    /\ UNCHANGED <<procs, port, sent, server_proc, server_monitor, i, calls,
                   envVars, cleanupVars, SESSION_ID, posted, reply, peer>>

\* Lines 266-275: the payload is built and the POST /load is sent.
view_post(path) ==
    /\ MainRuns /\ mpc = "load"
    /\ posted' = [session |-> SESSION_ID, path |-> path, mode |-> "buckaroo"]
    /\ mpc' = "posted"
    /\ UNCHANGED <<procs, port, sent, server_proc, server_monitor, i, old_pid,
                   health, result, calls, served, envVars, cleanupVars,
                   SESSION_ID, reply, log, peer>>

\* Lines 275-309: the answer to the POST /load. A 200 answer is parsed and
\* summarised; an exception of urlopen goes through the handler of lines
\* 278-287 and on to the caller.
view_response ==
    /\ MainRuns /\ mpc = "posted"
    /\ \E o \in LoadOutcomes :
         IF o.kind = "ok"
         THEN /\ reply' = [kind |-> "text", response |-> o,
                           text |-> summary(posted.path, o, result, SESSION_ID)]
              /\ UNCHANGED log
         ELSE LET f == load_failed(load_exception(o)) IN
              /\ reply' = [kind |-> "raised", exc |-> f.raised]
              /\ log' = log \cup {f.logged}
    /\ CallOver
    /\ UNCHANGED <<procs, port, sent, server_proc, server_monitor, calls,
                   served, envVars, cleanupVars, SESSION_ID, posted, peer>>

\* Lines 262-264 as the client sees them: the exception of ensure_server is
\* raised again and the call ends with it; no load is sent.
view_raise ==
    /\ MainRuns /\ mpc = "failed"
    /\ reply' = [kind |-> "raised",
                 exc |-> [type |-> result.err, msg |-> result.msg,
                          body |-> <<>>, fp |-> <<>>]]
    /\ CallOver
    /\ UNCHANGED <<procs, port, sent, server_proc, server_monitor, calls,
                   served, envVars, cleanupVars, SESSION_ID, posted, log, peer>>

\* A supervisor serving its client with nothing else listening at the
\* endpoint, and with no signal, no parent death and no exit: the start of
\* Init with the endpoint free, for any session id.
ServeInit ==
    /\ procs = <<>>
    /\ port = None
    /\ sent = {}
    /\ server_proc = None
    /\ server_monitor = None
    /\ sup = "running"
    /\ exitPath = "none"
    /\ mpc = "idle"
    /\ i = 0
    /\ old_pid = None
    /\ health = NoHealth
    /\ result = NoResult
    /\ calls = 0
    /\ cpc = [c \in Ctx |-> "none"]
    /\ cobj = [c \in Ctx |-> None]
    /\ ppidChanged = FALSE
    /\ sigs = 0
    /\ served = None
    /\ SESSION_ID \in SessionIds
    /\ ServeIdle
    /\ peer = PeerIdle

ServeNext ==
    \/ list_tools
    \/ list_resources
    \/ \E uri \in {PanelUri} : read_resource(uri)
    \/ view_start
    \/ ensure_probe
    \/ ensure_spawn
    \/ start_server_monitor
    \/ ensure_ready
    \/ ensure_ready_assets
    \/ \E path \in Paths : view_post(path)
    \/ view_response
    \/ view_raise
    \/ \E p \in Pids : service_bind(p)

ServeSpec == ServeInit /\ [][ServeNext]_vars

\* ---- claims about the request path ---------------------------------------

\* C13 (as claimed): a failure of the POST /load reaches the caller as the
\* exception urlopen raised, unmodified, and for an HTTP error the response
\* body is still part of it (unread in the exception or in its message).
C13_LoadFailureSurfacedWithBody ==
    (reply.kind = "raised"
       /\ reply.exc.type \in {"HTTPError", "URLError", "TimeoutError"})
       => /\ \E o \in LoadOutcomes :
               /\ o.kind # "ok"
               /\ reply.exc.type = load_exception(o).type
               /\ reply.exc.msg = load_exception(o).msg
          /\ (reply.exc.type = "HTTPError"
                => \/ reply.exc.fp = reply.exc.body
                   \/ Contains(reply.exc.msg, reply.exc.body))

\* C15 (as claimed): the panel resource is listed and can be read as HTML,
\* view_data and buckaroo_table declare ui.resourceUri equal to its URI, and
\* the three tools are registered.
C15_PanelExposed ==
    /\ reply.kind = "resources" => PanelUri \in reply.uris
    /\ reply.kind \in {"resource", "unknown resource"}
         => reply.kind = "resource" /\ reply.mime = "text/html"
    /\ reply.kind = "tools"
         => /\ \A n \in {"view_data", "buckaroo_table"} :
                 \E t \in reply.tools :
                    /\ t.name = n
                    /\ [key |-> "ui.resourceUri", val |-> PanelUri] \in t.meta
            /\ {"view_data", "buckaroo_table", "buckaroo_diagnostics"}
                  \subseteq {t.name : t \in reply.tools}

\* The name and dtype of every column of cols occur in text.
ContainsColumns(text, cols) ==
    \A k \in 1..Len(cols) :
        Contains(text, <<cols[k].name>>) /\ Contains(text, <<cols[k].dtype>>)

\* The session URL in the text carries the session id of the payloads sent,
\* which is the supervisor's one session id.
SameSession(text) ==
    /\ posted.session = SESSION_ID
    /\ Contains(text, session_url(posted.session))

\* C16 (as claimed): the text returned for a successful /load contains the
\* row count R in decimal, the name and dtype of every column, and the
\* session URL with the session id that was sent in the /load request, the
\* same for every call.
C16_SummaryContainsPlainRowCount ==
    reply.kind = "text"
       => /\ Contains(reply.text, str(reply.response.rows))
          /\ ContainsColumns(reply.text, reply.response.columns)
          /\ SameSession(reply.text)

\* The decimal digits of n in groups of three separated by commas, n below
\* 10^9.
WithSeparators(n) ==
    IF n < 1000 THEN str(n)
    ELSE IF n < 1000000 THEN str(n \div 1000) \o <<",">> \o Group3(n % 1000)
    ELSE str(n \div 1000000) \o <<",">> \o Group3((n \div 1000) % 1000)
         \o <<",">> \o Group3(n % 1000)

\* C16 (amended): the text contains the row count written with thousands
\* separators (the plain decimal only below 1000), followed by " rows", the
\* name and dtype of every column, and the session URL with the session id
\* that was sent in the /load request, the same for every call.
C16_SummaryContainsGroupedRowCount ==
    reply.kind = "text"
       => /\ Contains(reply.text,
                      <<"** -- ">> \o WithSeparators(reply.response.rows)
                         \o <<" rows, ">>)
          /\ (reply.response.rows < 1000
                => Contains(reply.text, str(reply.response.rows)))
          /\ ContainsColumns(reply.text, reply.response.columns)
          /\ SameSession(reply.text)

\* C16 witness: the second call of a supervisor has returned the summary of
\* a load of more than a million rows in two columns.
C16_Witness ==
    /\ calls = 2 /\ reply.kind = "text"
    /\ reply.response.rows > 1000000
    /\ Len(reply.response.columns) = 2

\* C20: a readiness probe answered by a report returns 'started' with the
\* report's pid and uptime whatever the report says about static files; the
\* step changes no process, no handle and no reply, and the listed files
\* decide only whether a warning is logged.
C20_StaticWarningNonFatal ==
    [][(mpc = "e234" /\ mpc' = "load")
       => /\ health'.k = "report"
          /\ result' = [status |-> "started", pid |-> health'.pid,
                        ver |-> health'.ver, uptime |-> health'.uptime,
                        err |-> "-", msg |-> <<>>]
          /\ procs' = procs /\ sent' = sent
          /\ server_proc' = server_proc /\ server_monitor' = server_monitor
          /\ reply' = reply
          /\ LET listed == IF "static_files" \in DOMAIN health'
                           THEN health'.static_files ELSE <<>>
                 bad == {n \in DOMAIN listed :
                            listed[n] \in {"absent", "empty", "nosize"}}
             IN log' = IF bad = {} THEN log
                       ELSE log \cup {[level |-> "warning",
                                       what |-> "static files missing",
                                       detail |-> bad]}]_vars

\* C20 witness: ensure_server has returned 'started' on a report in which
\* one listed file is absent and the other empty, and the warning is logged.
C20_Witness ==
    /\ mpc = "load" /\ result.status = "started"
    /\ "static_files" \in DOMAIN health
    /\ health.static_files = [n \in AssetNames |->
                                 IF n = "standalone.js" THEN "absent" ELSE "empty"]
    /\ result.pid = server_proc /\ server_monitor # None
    /\ \E r \in log : r.level = "warning" /\ r.detail = AssetNames

\* ---- the processes a supervisor has spawned ------------------------------

\* Live watchdogs this supervisor spawned.
OwnLiveWatchdogs == {w \in Watchdogs : procs[w].alive /\ procs[w].own}

\* C21 (as claimed): while the supervisor runs and no cleanup has started,
\* every live service it spawned is the one in the service handle and every
\* live watchdog it spawned is the one in the watchdog handle (the watchdog
\* handle lagging by the one step between lines 229 and 58 excepted).
C21_NoLeakedChild ==
    (sup = "running" /\ \A c \in Ctx : cpc[c] = "none")
       => /\ \A p \in OwnLiveServices : p = server_proc
          /\ mpc # "e230" => \A w \in OwnLiveWatchdogs : w = server_monitor

\* The service spawned by the ensure_server call in progress: the youngest
\* process this supervisor launched as a service.
SpawnedByThisCall ==
    CHOOSE p \in {q \in Services : procs[q].own} :
        \A q \in Services : procs[q].own => q <= p

\* C22 (as claimed): an ensure_server that returns 'started' reports the pid
\* of the service the same call spawned.
C22_StartedMeansSpawned ==
    [][(mpc = "e234" /\ mpc' = "load")
       => /\ result'.status = "started"
          /\ result'.pid = SpawnedByThisCall]_vars

\* ---- a second supervisor on the same endpoint ----------------------------

\* Another instance of the same program (a second MCP client started its own
\* copy): the same SERVER_URL, its own module globals. Its calls are
\* sequential; the processes it launches are, to this supervisor, processes
\* of somebody else.
PeerRuns == peer.pc # "gone"

PeerWatchdog(server_pid) ==
    [kind |-> "peer_watchdog", alive |-> TRUE, ver |-> "-",
     target |-> server_pid, own |-> FALSE, perm |-> TRUE]

PeerWatchdogs == {p \in Pids : procs[p].kind = "peer_watchdog"}

\* The services on this endpoint are services of this program: they answer
\* a probe with a report, or not in time.
PeerProbeOutcomes == IF ~Alive(port) THEN {"refused"} ELSE {"ok200", "timeout"}

peerFrame ==
    <<server_proc, server_monitor, mainVars, cleanupVars, envVars, serveVars>>

\* Lines 197-227 in the peer: a report of the expected version is reused,
\* no report leads to the launch.
peer_ensure_probe ==
    /\ PeerRuns /\ peer.pc = "idle" /\ peer.calls < MaxPeerCalls
    /\ \E o \in PeerProbeOutcomes :
         IF o = "ok200"
         THEN /\ procs[port].ver = ExpectedVersion
              /\ peer' = [peer EXCEPT !.served = port, !.calls = @ + 1]
         ELSE peer' = [peer EXCEPT !.pc = "e229", !.calls = @ + 1]
    /\ UNCHANGED <<procs, port, sent, peerFrame>>

\* Line 229 in the peer.
peer_ensure_spawn ==
    /\ PeerRuns /\ peer.pc = "e229"
    /\ procs' = Append(procs, ForeignService(ExpectedVersion, TRUE))
    /\ peer' = [peer EXCEPT !.server_proc = Len(procs) + 1, !.pc = "e230"]
    /\ UNCHANGED <<port, sent, peerFrame>>

\* Line 230 in the peer.
peer_start_server_monitor ==
    /\ PeerRuns /\ peer.pc = "e230"
    /\ procs' = Append(procs, PeerWatchdog(peer.server_proc))
    /\ peer' = [peer EXCEPT !.server_monitor = Len(procs) + 1, !.pc = "e234"]
    /\ UNCHANGED <<port, sent, peerFrame>>

\* Lines 232-252 in the peer, the readiness loop to its end: a probe within
\* the budget is answered by whoever listens, or none is and the call fails.
peer_ensure_ready ==
    /\ PeerRuns /\ peer.pc = "e234"
    /\ \E o \in PeerProbeOutcomes :
         IF o = "ok200"
         THEN peer' = [peer EXCEPT !.served = port, !.pc = "idle"]
         ELSE peer' = [peer EXCEPT !.pc = "idle"]
    /\ UNCHANGED <<procs, port, sent, peerFrame>>

\* The peer's mcp.run() returns and its exit hook runs _cleanup_server,
\* lines 68-90, to the end: terminate() and wait(3) on its service, kill()
\* if the wait times out, terminate() on its watchdog, then the process is
\* gone.
peer_exit ==
    /\ PeerRuns /\ peer.pc = "idle"
    /\ LET sp == peer.server_proc
           sm == peer.server_monitor
           dead == {p \in {sp, sm} : Alive(p)}
       IN /\ \E timed_out \in BOOLEAN :
               sent' = sent
                  \cup (IF Alive(sp)
                        THEN {[to |-> sp, sig |-> "TERM", by |-> "peer"]}
                        ELSE {})
                  \cup (IF Alive(sp) /\ timed_out
                        THEN {[to |-> sp, sig |-> "KILL", by |-> "peer"]}
                        ELSE {})
                  \cup (IF Alive(sm)
                        THEN {[to |-> sm, sig |-> "TERM", by |-> "peer"]}
                        ELSE {})
          /\ procs' = [p \in Pids |->
                         IF p \in dead THEN [procs[p] EXCEPT !.alive = FALSE]
                         ELSE procs[p]]
          /\ port' = IF port \in dead THEN None ELSE port
    /\ peer' = [peer EXCEPT !.pc = "gone", !.server_proc = None,
                            !.server_monitor = None]
    /\ UNCHANGED peerFrame

\* SIGKILL to the peer: no code of it runs any more.
peer_killed ==
    /\ PeerRuns
    /\ peer' = [peer EXCEPT !.pc = "gone"]
    /\ UNCHANGED <<procs, port, sent, peerFrame>>

\* A service the peer launched tries to listen.
peer_service_bind(p) ==
    /\ p \in LiveServices /\ ~procs[p].own /\ port # p
    /\ IF port = None
       THEN /\ port' = p
            /\ UNCHANGED procs
       ELSE /\ procs' = Die(p)
            /\ UNCHANGED port
    /\ UNCHANGED <<sent, peer, peerFrame>>

\* A watchdog of the peer that outlived it sees the pipe close once the peer
\* is gone.
peer_monitor_code(w) ==
    /\ w \in PeerWatchdogs /\ procs[w].alive /\ ~PeerRuns
    /\ LET t == procs[w].target IN
         sent' = IF Alive(t)
                 THEN sent \cup {[to |-> t, sig |-> "TERM",
                                  by |-> "peer_watchdog"]}
                 ELSE sent
    /\ procs' = Die(w)
    /\ UNCHANGED <<port, peer, peerFrame>>

\* Both supervisors start on a free endpoint.
PairInit == Init /\ procs = <<>>

\* This supervisor with its sequential calls and its normal exit, the peer,
\* and the processes of both.
PairNext ==
    \/ view_start
    \/ ensure_probe
    \/ ensure_spawn
    \/ start_server_monitor
    \/ ensure_ready
    \/ view_load
    \/ view_fail
    \/ main_returns
    \/ \E c \in {"atexit"} : cleanup_server(c)
    \/ atexit_finish
    \/ \E p \in Pids : service_bind(p)
    \/ \E p \in Pids : service_exits_on_term(p)
    \/ \E w \in Pids : monitor_code(w)
    \/ peer_ensure_probe
    \/ peer_ensure_spawn
    \/ peer_start_server_monitor
    \/ peer_ensure_ready
    \/ peer_exit
    \/ peer_killed
    \/ \E p \in Pids : peer_service_bind(p)
    \/ \E w \in Pids : peer_monitor_code(w)

PairSpec == PairInit /\ [][PairNext]_vars

\* The signals this supervisor's code sends, and those of the peer's code.
SignalsOfSupervisor == {s \in sent : s.by \in Ctx \cup {"watchdog", "ensure"}}
SignalsOfPeer == {s \in sent : s.by \in {"peer", "peer_watchdog"}}

\* C23 (as claimed): of two supervisors on one endpoint, one launches a
\* service only when no service launched by the other is alive, and neither
\* signals the service that the other's last ensure_server returned while
\* the other is still running.
C23_TwoSupervisorsShareOneService ==
    [][/\ (mpc = "e229" /\ mpc' = "e230")
            => \A p \in LiveServices : procs[p].own
       /\ (peer.pc = "e229" /\ peer'.pc = "e230")
            => \A p \in LiveServices : ~procs[p].own
       /\ (PeerRuns /\ peer.served # None)'
            => \A s \in SignalsOfSupervisor' : s.to # peer'.served
       /\ (sup = "running" /\ served # None)'
            => \A s \in SignalsOfPeer' : s.to # served']_vars

\* ---- buckaroo_diagnostics --------------------------------------------------

\* What a GET /diagnostics can meet. A service of the expected version has
\* the endpoint; an older one answers 404. A listener this supervisor did
\* not launch may also answer 200 with a body that is not JSON.
DiagnosticsOutcomes ==
    IF ~Alive(port) THEN {"refused"}
    ELSE (IF procs[port].ver = ExpectedVersion THEN {"ok200", "timeout"}
          ELSE {"non200"})
         \cup (IF procs[port].own THEN {} ELSE {"malformed"})

DependencySets == {<<>>, [polars |-> TRUE], [polars |-> FALSE]}

NoDiagnostics == [k |-> "none", err |-> "-"]

\* _get_diagnostics: the same try/except as _health_check around the same
\* json.loads.
get_diagnostics(outcome, u, static_files, deps) ==
    CASE outcome = "ok200" ->
           [k |-> "report", pid |-> port, uptime_s |-> u,
            static_files |-> static_files, dependencies |-> deps,
            err |-> "-"]
      [] outcome = "malformed" -> [k |-> "raise", err |-> "JSONDecodeError"]
      [] OTHER -> NoDiagnostics

\* Lines 358-364: one warning per listed file that does not exist or has no
\* bytes (no size_bytes entry counts as 0).
diagnostics_warnings(static_files) ==
    {<<"MISSING", n>> : n \in {a \in DOMAIN static_files :
                                  static_files[a] = "absent"}}
    \cup {<<"EMPTY", n>> : n \in {a \in DOMAIN static_files :
                                    static_files[a] \in {"empty", "nosize"}}}

\* Lines 366-370: OK or PROBLEM per listed file.
static_summary(static_files) ==
    [n \in DOMAIN static_files |->
        IF static_files[n] = "present" THEN "OK" ELSE "PROBLEM"]

\* Lines 343-347.
not_running_report ==
    [kind |-> "text",
     text |-> <<"Buckaroo server is NOT running.">> \o format_startup_failure]

\* Lines 352-356.
unavailable_report(h) ==
    [kind |-> "text",
     text |-> <<"Server is running (pid=", str(h.pid),
                ") but /diagnostics endpoint unavailable", "Health: ", h.ver,
                str(h.uptime)>>]

\* Lines 379-396.
diagnostics_report(diag) ==
    [kind |-> "text",
     text |-> <<"## Buckaroo Server Diagnostics", "Server: pid=",
                str(diag.pid), " uptime=", str(diag.uptime_s), "s">>,
     static |-> static_summary(diag.static_files),
     deps |-> diag.dependencies,
     warnings |-> diagnostics_warnings(diag.static_files)]

\* An exception that leaves the tool: the client gets an error, not a text.
diagnostics_raised(err) ==
    [kind |-> "raised",
     exc |-> [type |-> err, msg |-> <<>>, body |-> <<>>, fp |-> <<>>]]

\* buckaroo_diagnostics, lines 332-396: probe /health, fetch /diagnostics,
\* format. It assigns no global and calls neither Popen nor kill.
buckaroo_diagnostics ==
    /\ MainRuns /\ mpc = "idle"
    /\ \E o \in ProbeOutcomes, u \in Uptimes :
         LET h == health_check(o, u) IN
         CASE h.k = "raise" -> reply' = diagnostics_raised(h.err)
           [] h.k = "none" -> reply' = not_running_report
           [] OTHER ->
                \E d \in DiagnosticsOutcomes, v \in Uptimes,
                   static_files \in StaticFiles, deps \in DependencySets :
                  LET diag == get_diagnostics(d, v, static_files, deps) IN
                  CASE diag.k = "raise" -> reply' = diagnostics_raised(diag.err)
                    [] diag.k = "none" -> reply' = unavailable_report(h)
                    [] OTHER -> reply' = diagnostics_report(diag)
    /\ UNCHANGED <<supervisionVars, SESSION_ID, posted, log>>

\* The states of the service the tool can be asked about: nothing launched;
\* a service of this supervisor with its watchdog, listening or not yet;
\* somebody else's service of the expected version; an older one.
DiagnosticsInit ==
    /\ \E st \in {"free", "own", "foreign", "stale"} :
         /\ procs = CASE st = "free" -> <<>>
                      [] st = "own" -> <<OwnService, Watchdog(1)>>
                      [] st = "foreign" ->
                           <<ForeignService(ExpectedVersion, TRUE)>>
                      [] OTHER -> <<ForeignService(StaleVersion, TRUE)>>
         /\ port = IF st \in {"free", "own"} THEN None ELSE 1
         /\ server_proc = IF st = "own" THEN 1 ELSE None
         /\ server_monitor = IF st = "own" THEN 2 ELSE None
         /\ served = None
    /\ sent = {}
    /\ sup = "running"
    /\ exitPath = "none"
    /\ mpc = "idle"
    /\ i = 0
    /\ old_pid = None
    /\ health = NoHealth
    /\ result = NoResult
    /\ calls = 0
    /\ cpc = [c \in Ctx |-> "none"]
    /\ cobj = [c \in Ctx |-> None]
    /\ ppidChanged = FALSE
    /\ sigs = 0
    /\ SESSION_ID = "s1"
    /\ ServeIdle
    /\ peer = PeerIdle

DiagnosticsNext ==
    \/ buckaroo_diagnostics
    \/ \E p \in Pids : service_bind(p)

DiagnosticsSpec == DiagnosticsInit /\ [][DiagnosticsNext]_vars

\* The supervisor state: the processes, the signals, the two handles.
supervisorState == <<procs, sent, server_proc, server_monitor>>

\* C24 (as claimed): whatever the state of the service, a call of
\* buckaroo_diagnostics ends in a text report and leaves the supervisor
\* state as it was; with nobody listening the report says that the server
\* is not running.
C24_DiagnosticsReadOnly ==
    [][reply' # reply
         => /\ reply'.kind = "text"
            /\ supervisorState' = supervisorState
            /\ ~Alive(port) => reply' = not_running_report]_vars

====
